---- MODULE Spec2Model ----
(***************************************************************************)
(* Model of the loss-prediction pipeline of LossPrediction.ipynb:          *)
(* load_data -> clean_and_engineer (train, test) -> FEATURES selection ->  *)
(* encode_and_impute -> train_test_split -> compare_models -> final        *)
(* retrain -> predict -> submission.csv.                                   *)
(*                                                                         *)
(* Values.  A float64 cell is an extended rational [num, den] with         *)
(* den >= 0: den = 1.. is a finite number in lowest terms, 1/0 and -1/0    *)
(* are +inf and -inf, 0/0 is NaN (the missing value of a numeric column).  *)
(* A CSV timestamp cell is the tuple <<year, month, day, hour>> of its     *)
(* text, or <<>> for an empty cell; a parsed timestamp is <<t>> with t the *)
(* number of hours since 1970-01-01 00:00, or <<>> for NaT.  A categorical *)
(* CSV cell is its text, "" being the empty cell.                          *)
(***************************************************************************)
EXTENDS Integers, Sequences, FiniteSets, TLC

(***************************************************************************)
(* Bounds of the model.                                                    *)
(***************************************************************************)
MaxRmse == 2          \* finite hold-out RMSE values are 0..MaxRmse
MaxTrainRows == 7     \* the training table has 1..MaxTrainRows rows
MaxTestRows == 2      \* the test table has 1..MaxTestRows rows

(***************************************************************************)
(* float64 arithmetic (numpy / pandas element-wise operators).             *)
(***************************************************************************)
NaN == [num |-> 0, den |-> 0]
Inf == [num |-> 1, den |-> 0]
Num(n) == [num |-> n, den |-> 1]
IsNaN(a) == a.num = 0 /\ a.den = 0
IsFinite(a) == a.den > 0

Abs(n) == IF n < 0 THEN -n ELSE n
Sign(n) == IF n < 0 THEN -1 ELSE IF n > 0 THEN 1 ELSE 0

RECURSIVE Gcd(_, _)
Gcd(a, b) == IF b = 0 THEN a ELSE Gcd(b, a % b)

\* n/d brought to the canonical form of a float value
Float(n, d) ==
    IF d = 0 THEN [num |-> Sign(n), den |-> 0]
    ELSE LET s == IF d < 0 THEN -1 ELSE 1
             g == Gcd(Abs(n), Abs(d))
         IN  [num |-> (s * n) \div g, den |-> (s * d) \div g]

\* a / b  (x/0 = +-inf, 0/0 = NaN, NaN propagates)
FloatDiv(a, b) ==
    IF IsNaN(a) \/ IsNaN(b) THEN NaN
    ELSE Float(a.num * b.den, a.den * b.num)

\* FloatAdd with a missing operand skipped (counted as 0)
FloatAddSkipNa(a, b) ==
    IF IsNaN(a) /\ IsNaN(b) THEN NaN
    ELSE IF IsNaN(a) THEN b
    ELSE IF IsNaN(b) THEN a
    ELSE Float(a.num * b.den + b.num * a.den, a.den * b.den)

\* a + b  (NaN propagates)
FloatAdd(a, b) ==
    IF IsNaN(a) \/ IsNaN(b) THEN NaN
    ELSE IF a.den = 0 /\ b.den = 0
         THEN (IF a.num = b.num THEN a ELSE NaN)
    ELSE IF a.den = 0 THEN a
    ELSE IF b.den = 0 THEN b
    ELSE Float(a.num * b.den + b.num * a.den, a.den * b.den)

\* a < b on floats: every comparison with NaN is False
FloatLess(a, b) ==
    /\ ~IsNaN(a)
    /\ ~IsNaN(b)
    /\ a.num * b.den < b.num * a.den

\* Replace with the replacement left out
ReplaceNothing(a, old, new) == a

\* Series.replace(old, new) on one cell
Replace(a, old, new) == IF a = old THEN new ELSE a

\* fillna(value) on one cell
Fillna(a, value) == IF IsNaN(a) THEN value ELSE a

(***************************************************************************)
(* Timestamps (pd.to_datetime, Timestamp subtraction, the .dt accessors).  *)
(* The years of the model are 1970 and 1971, neither a leap year.          *)
(***************************************************************************)
NaT == <<>>
HoursPerDay == 24
DaysPerYear == 365
EpochYear == 1970
DaysInMonth == <<31, 28, 31, 30, 31, 30, 31, 31, 30, 31, 30, 31>>

RECURSIVE DaysBeforeMonth(_)
DaysBeforeMonth(m) == IF m <= 1 THEN 0 ELSE DaysBeforeMonth(m - 1) + DaysInMonth[m - 1]

\* the text of a cell is a date-time pd.to_datetime can parse
Parsable(text) ==
    \/ text = <<>>
    \/ /\ Len(text) = 4
       /\ text[1] >= EpochYear
       /\ text[2] \in 1..12
       /\ text[3] \in 1..DaysInMonth[text[2]]
       /\ text[4] \in 0..(HoursPerDay - 1)

\* day number (days since the epoch) of the calendar date of a timestamp text
DayNumber(text) ==
    (text[1] - EpochYear) * DaysPerYear + DaysBeforeMonth(text[2]) + (text[3] - 1)

\* pd.to_datetime on one parsable cell
to_datetime(text) ==
    IF text = <<>> THEN NaT ELSE <<DayNumber(text) * HoursPerDay + text[4]>>

\* Timestamp - Timestamp: a Timedelta in hours, NaT if either side is NaT
TimeSub(a, b) == IF a = NaT \/ b = NaT THEN NaT ELSE <<a[1] - b[1]>>

\* dt_days with a negative delay clamped to 0
dt_days_clamped(td) ==
    IF td = NaT THEN NaN
    ELSE Num(IF td[1] < 0 THEN 0 ELSE td[1] \div HoursPerDay)

\* dt_days with the partial day cut off towards zero
dt_days_truncated(td) ==
    IF td = NaT THEN NaN
    ELSE Num(IF td[1] < 0 THEN -((-td[1]) \div HoursPerDay) ELSE td[1] \div HoursPerDay)

\* Timedelta.days: the days component, floor of the elapsed time in days
dt_days(td) == IF td = NaT THEN NaN ELSE Num(td[1] \div HoursPerDay)

\* Timestamp.hour
dt_hour(ts) == IF ts = NaT THEN NaN ELSE Num(ts[1] % HoursPerDay)

\* dt_month with the months counted from 0
dt_month_from_zero(ts) ==
    IF ts = NaT THEN NaN
    ELSE LET doy == (ts[1] \div HoursPerDay) % DaysPerYear
         IN  Num((CHOOSE m \in 1..12 :
                    /\ DaysBeforeMonth(m) <= doy
                    /\ doy < DaysBeforeMonth(m) + DaysInMonth[m]) - 1)

\* Timestamp.month
dt_month(ts) ==
    IF ts = NaT THEN NaN
    ELSE LET doy == (ts[1] \div HoursPerDay) % DaysPerYear
         IN  Num(CHOOSE m \in 1..12 :
                   /\ DaysBeforeMonth(m) <= doy
                   /\ doy < DaysBeforeMonth(m) + DaysInMonth[m])

(***************************************************************************)
(* Tables.  A table is a sequence of rows; a row is a record, one field    *)
(* per column.                                                             *)
(***************************************************************************)
Range(s) == {s[i] : i \in 1..Len(s)}

\* the result of an operation that can raise: the value it returns, or the
\* exception (then value is what the operation leaves behind in its arguments)
Ok(v) == [ok |-> TRUE, value |-> v]
Raised(v) == [ok |-> FALSE, value |-> v]
Raise == Raised(<<>>)

\* clean_and_engineer on one row whose two timestamp cells are parsable
CleanRow(r) ==
    LET acc == to_datetime(r.DateTimeOfAccident)
        rep == to_datetime(r.DateReported)
    IN  [DateTimeOfAccident |-> acc,
         DateReported       |-> rep,
         ReportDelayDays    |-> dt_days(TimeSub(rep, acc)),
         AccidentMonth      |-> dt_month(acc),
         AccidentHour       |-> dt_hour(acc),
         WagePerHour        |-> FloatDiv(r.WeeklyWages,
                                         Replace(r.HoursWorkedPerWeek, Num(0), NaN)),
         DependentsTotal    |-> FloatAdd(r.DependentChildren, r.DependentsOther)]
        @@ r

\* clean_and_engineer working on the caller's table, without df.copy(): when
\* the second pd.to_datetime raises, the first column is already parsed
clean_and_engineer_in_place(df) ==
    IF \E i \in 1..Len(df) : ~Parsable(df[i].DateTimeOfAccident)
    THEN Raised(df)
    ELSE IF \E i \in 1..Len(df) : ~Parsable(df[i].DateReported)
    THEN Raised([i \in 1..Len(df) |->
                    [df[i] EXCEPT !.DateTimeOfAccident = to_datetime(@)]])
    ELSE Ok([i \in 1..Len(df) |-> CleanRow(df[i])])

\* clean_and_engineer(df): a new table, or the exception that pd.to_datetime
\* raises on a cell it cannot parse.  Every assignment goes to df.copy(), so
\* the exception leaves the caller's table as it was.
clean_and_engineer(df) ==
    IF \E i \in 1..Len(df) :
           \/ ~Parsable(df[i].DateTimeOfAccident)
           \/ ~Parsable(df[i].DateReported)
    THEN Raised(df)
    ELSE Ok([i \in 1..Len(df) |-> CleanRow(df[i])])

FEATURES ==
    <<"Age", "AccidentMonth", "AccidentHour", "ReportDelayDays",
      "WeeklyWages", "HoursWorkedPerWeek", "DaysWorkedPerWeek",
      "WagePerHour", "DependentsTotal",
      "Gender", "MaritalStatus", "PartTimeFullTime">>

\* df[FEATURES]
SelectFeatures(df) ==
    [i \in 1..Len(df) |-> [c \in Range(FEATURES) |-> df[i][c]]]

(***************************************************************************)
(* LabelEncoder.  classes_ is the sorted sequence of the distinct texts of *)
(* the fitted column; TextOrder lists the texts of the model in the order  *)
(* np.unique sorts them (code-point order).                                *)
(***************************************************************************)
TextOrder == <<"0", "F", "M", "U", "nan">>

\* astype_str after a zero-fill: the missing cell becomes '0'
astype_str_zero_filled(v) == IF v = "" THEN "0" ELSE v

\* Series.astype(str) on one categorical cell: the missing cell becomes 'nan'
astype_str(v) == IF v = "" THEN "nan" ELSE v

\* LabelEncoder.fit: classes_ of a column of texts
le_fit(texts) ==
    LET Seen(s) == s \in Range(texts)
    IN  SelectSeq(TextOrder, Seen)

\* le_code with the positions counted from 1
le_code_from_one(classes, s) == CHOOSE k \in 1..Len(classes) : classes[k] = s

\* the code of one text under classes_ (its position, from 0)
le_code(classes, s) == (CHOOSE k \in 1..Len(classes) : classes[k] = s) - 1

\* le_transform with a text that is not in classes_ put in an extra bucket
le_transform_lenient(classes, texts) ==
    Ok([i \in 1..Len(texts) |->
           IF texts[i] \in Range(classes) THEN Num(le_code(classes, texts[i]))
           ELSE Num(Len(classes))])

\* LabelEncoder.transform: raises ValueError on a text that is not in classes_
le_transform(classes, texts) ==
    IF \E i \in 1..Len(texts) : texts[i] \notin Range(classes)
    THEN Raise
    ELSE Ok([i \in 1..Len(texts) |-> Num(le_code(classes, texts[i]))])

Column(df, col) == [i \in 1..Len(df) |-> df[i][col]]
SetColumn(df, col, values) ==
    [i \in 1..Len(df) |-> [df[i] EXCEPT ![col] = values[i]]]
StrColumn(df, col) == [i \in 1..Len(df) |-> astype_str(df[i][col])]

\* DataFrame.fillna(0)
fillna0(df) ==
    [i \in 1..Len(df) |-> [c \in DOMAIN df[i] |-> Fillna(df[i][c], Num(0))]]

cats == <<"Gender", "MaritalStatus", "PartTimeFullTime">>

\* EncodeFrom with a second encoder fitted on the test column
RECURSIVE EncodeFromRefit(_, _, _)
EncodeFromRefit(k, X_train, X_test) ==
    IF k > Len(cats) THEN Ok(<<X_train, X_test>>)
    ELSE LET col == cats[k]
             tr  == le_transform(le_fit(StrColumn(X_train, col)),
                                 StrColumn(X_train, col))
             te  == le_transform(le_fit(StrColumn(X_test, col)),
                                 StrColumn(X_test, col))
         IN  EncodeFromRefit(k + 1, SetColumn(X_train, col, tr.value),
                             SetColumn(X_test, col, te.value))

\* the loop of encode_and_impute from the column cats[k] on.  The two frames
\* are assigned in place, column by column: when transform raises on the test
\* column, the training column of that iteration is already encoded.
RECURSIVE EncodeFrom(_, _, _)
EncodeFrom(k, X_train, X_test) ==
    IF k > Len(cats) THEN Ok(<<X_train, X_test>>)
    ELSE LET col     == cats[k]
             classes == le_fit(StrColumn(X_train, col))
             tr      == le_transform(classes, StrColumn(X_train, col))
             te      == le_transform(classes, StrColumn(X_test, col))
             X_enc   == SetColumn(X_train, col, tr.value)
         IN  IF ~te.ok THEN Raised(<<X_enc, X_test>>)
             ELSE EncodeFrom(k + 1, X_enc, SetColumn(X_test, col, te.value))

\* encode_and_impute with the test frame returned as encoded, not filled
encode_and_impute_train_only(X_train, X_test) ==
    LET enc == EncodeFrom(1, X_train, X_test)
    IN  IF ~enc.ok THEN enc
        ELSE Ok(<<fillna0(enc.value[1]), enc.value[2]>>)

\* encode_and_impute(X_train, X_test): the two frames it returns
encode_and_impute(X_train, X_test) ==
    LET enc == EncodeFrom(1, X_train, X_test)
    IN  IF ~enc.ok THEN enc
        ELSE Ok(<<fillna0(enc.value[1]), fillna0(enc.value[2])>>)

(***************************************************************************)
(* train_test_split, GridSearchCV and the estimators.                      *)
(* An estimator is [name, params, fitted_on]: its family, its              *)
(* hyperparameter combination (a tuple of positions in the grid lists,     *)
(* <<>> for the defaults) and the set of rows of X it was last fitted on.  *)
(***************************************************************************)
None == [name |-> "None", params |-> <<>>, fitted_on |-> {}]

\* model_defs: the families in iteration order; grid gives, for each
\* hyperparameter of the family's grid, the number of values listed
model_defs ==
    << [name |-> "GradientBoosting", grid |-> <<2, 2, 2>>],
       [name |-> "RandomForest",     grid |-> <<2, 2>>],
       [name |-> "CatBoost",         grid |-> <<2, 2, 2>>] >>

Names == {model_defs[i].name : i \in 1..Len(model_defs)}

\* ParameterGrid(grid): every combination of the grid
RECURSIVE Combinations(_, _)
Combinations(grid, d) ==
    IF d = 0 THEN {<<>>}
    ELSE {Append(p, v) : p \in Combinations(grid, d - 1), v \in 1..grid[d]}

ParameterGrid(grid) == Combinations(grid, Len(grid))

cv == 5
test_size == [num |-> 1, den |-> 5]

\* ceil(test_size * n): the number of validation rows train_test_split takes
n_test(n) == -((-(n * test_size.num)) \div test_size.den)

\* the elements of a set of integers in increasing order
RECURSIVE Sorted(_)
Sorted(S) ==
    IF S = {} THEN <<>>
    ELSE LET m == CHOOSE x \in S : \A z \in S : x <= z
         IN  <<m>> \o Sorted(S \ {m})

\* KFold(cv): the positions 1..n of the samples cut into cv consecutive folds,
\* the first n % cv of them one longer
FoldSize(k, n) == (n \div cv) + (IF k <= n % cv THEN 1 ELSE 0)

RECURSIVE FoldStart(_, _)
FoldStart(k, n) == IF k <= 1 THEN 1 ELSE FoldStart(k - 1, n) + FoldSize(k - 1, n)

Fold(k, n) == FoldStart(k, n)..(FoldStart(k, n) + FoldSize(k, n) - 1)

\* the fits GridSearchCV.fit(X_tr, y_tr) performs: every combination on every
\* fold's training part, then the best combination on all of X_tr (refit)
SearchFits(def, rows, best_params) ==
    {[name |-> def.name, params |-> p, stage |-> "cv",
      rows |-> {rows[j] : j \in (1..Len(rows)) \ Fold(k, Len(rows))}] :
         p \in ParameterGrid(def.grid), k \in 1..cv}
    \cup {[name |-> def.name, params |-> best_params, stage |-> "refit",
           rows |-> Range(rows)]}

\* estimator.fit(X, y) on the rows `rows` of X: the hyperparameters are kept
fit(model, rows) == [model EXCEPT !.fitted_on = rows]

\* the prediction of a fitted estimator for one row of features
Predict(model, x) == [model |-> model, x |-> x]

\* predict_all with the predictions in reverse row order
predict_all_reversed(model, df) ==
    [i \in 1..Len(df) |-> Predict(model, df[Len(df) + 1 - i])]

\* estimator.predict(X): one prediction per row, in row order
predict_all(model, df) == [i \in 1..Len(df) |-> Predict(model, df[i])]

(***************************************************************************)
(* State.                                                                  *)
(***************************************************************************)
VARIABLES
    fs,          \* the files: path -> table
    oracle,      \* what the seeded library calls of this run come to:
                 \* val (the rows train_test_split holds out), best_params
                 \* and holdout (per family, GridSearchCV's choice and the
                 \* hold-out RMSE of its best estimator)
    pc,          \* the statement of main to execute next
    failed_at,   \* the statement that raised, "" if none did
    train, test, submission,
    X, y, X_test,
    X_tr, X_val, \* the index labels (rows of X) of the two splits
    cm,          \* the locals of compare_models
    best_model, best_rmse,
    fits         \* every fit performed so far

vars == <<fs, oracle, pc, failed_at, train, test, submission, X, y, X_test,
          X_tr, X_val, cm, best_model, best_rmse, fits>>

(***************************************************************************)
(* main, one action per statement.  A statement that raises ends the run:  *)
(* nothing catches the exception and nothing is retried.                   *)
(***************************************************************************)
\* Fail with the exception swallowed: main goes on to write the file
FailAndWrite ==
    /\ pc' = "to_csv"
    /\ failed_at' = pc

\* an exception leaves main
Fail ==
    /\ pc' = "failed"
    /\ failed_at' = pc

Paths == {"train.csv", "test.csv", "sample_submission.csv"}

\* line 277: train, test, submission = load_data(...)
load_data ==
    /\ pc = "load_data"
    /\ IF Paths \subseteq DOMAIN fs
       THEN /\ train' = fs["train.csv"]
            /\ test' = fs["test.csv"]
            /\ submission' = fs["sample_submission.csv"]
            /\ pc' = "clean_train"
            /\ UNCHANGED failed_at
       ELSE /\ Fail
            /\ UNCHANGED <<train, test, submission>>
    /\ UNCHANGED <<fs, oracle, X, y, X_test, X_tr, X_val, cm, best_model,
                   best_rmse, fits>>

\* line 280: train = clean_and_engineer(train)
clean_train ==
    /\ pc = "clean_train"
    /\ LET r == clean_and_engineer(train)
       IN  /\ train' = r.value
           /\ IF r.ok
              THEN /\ pc' = "clean_test"
                   /\ UNCHANGED failed_at
              ELSE Fail
    /\ UNCHANGED <<fs, oracle, test, submission, X, y, X_test, X_tr, X_val, cm,
                   best_model, best_rmse, fits>>

\* line 281: test = clean_and_engineer(test)
clean_test ==
    /\ pc = "clean_test"
    /\ LET r == clean_and_engineer(test)
       IN  /\ test' = r.value
           /\ IF r.ok
              THEN /\ pc' = "build_matrices"
                   /\ UNCHANGED failed_at
              ELSE Fail
    /\ UNCHANGED <<fs, oracle, train, submission, X, y, X_test, X_tr, X_val, cm,
                   best_model, best_rmse, fits>>

\* lines 284-286: X, y, X_test
build_matrices ==
    /\ pc = "build_matrices"
    /\ X' = SelectFeatures(train)
    /\ y' = Column(train, "UltimateIncurredClaimCost")
    /\ X_test' = SelectFeatures(test)
    /\ pc' = "encode"
    /\ UNCHANGED <<fs, oracle, failed_at, train, test, submission, X_tr, X_val,
                   cm, best_model, best_rmse, fits>>

\* line 287: X, X_test = encode_and_impute(X, X_test)
encode ==
    /\ pc = "encode"
    /\ LET r == encode_and_impute(X, X_test)
       IN  /\ X' = r.value[1]
           /\ X_test' = r.value[2]
           /\ IF r.ok
              THEN /\ pc' = "split"
                   /\ UNCHANGED failed_at
              ELSE Fail
    /\ UNCHANGED <<fs, oracle, train, test, submission, y, X_tr, X_val, cm,
                   best_model, best_rmse, fits>>

\* split with the held-out rows left in the training split as well
split_without_holdout ==
    /\ pc = "split"
    /\ IF Len(X) - n_test(Len(X)) > 0
       THEN /\ X_val' = Sorted(oracle.val)
            /\ X_tr' = Sorted(1..Len(X))
            /\ pc' = "compare_models"
            /\ UNCHANGED failed_at
       ELSE /\ Fail
            /\ UNCHANGED <<X_tr, X_val>>
    /\ UNCHANGED <<fs, oracle, train, test, submission, X, y, X_test, cm,
                   best_model, best_rmse, fits>>

\* line 290: train_test_split(X, y, test_size=0.2, random_state=42); it raises
\* when no row would be left for the training split
split ==
    /\ pc = "split"
    /\ IF Len(X) - n_test(Len(X)) > 0
       THEN /\ X_val' = Sorted(oracle.val)
            /\ X_tr' = Sorted((1..Len(X)) \ oracle.val)
            /\ pc' = "compare_models"
            /\ UNCHANGED failed_at
       ELSE /\ Fail
            /\ UNCHANGED <<X_tr, X_val>>
    /\ UNCHANGED <<fs, oracle, train, test, submission, X, y, X_test, cm,
                   best_model, best_rmse, fits>>

(***************************************************************************)
(* compare_models(X_tr, y_tr, X_val, y_val), called at line 294 of main.   *)
(* cm.i is the position of the loop over model_defs: 0 before the call,    *)
(* 1..3 for the family to evaluate, 4 once the loop has ended.             *)
(***************************************************************************)
CmIdle == [i |-> 0, best_rmse |-> Inf, best_model |-> None, best_name |-> "None",
           rmse |-> <<>>]

\* lines 137-139: best_rmse = float('inf'); best_model = None; best_name = None
compare_start ==
    /\ pc = "compare_models"
    /\ cm.i = 0
    /\ cm' = [CmIdle EXCEPT !.i = 1]
    /\ UNCHANGED <<fs, oracle, pc, failed_at, train, test, submission, X, y,
                   X_test, X_tr, X_val, best_model, best_rmse, fits>>

\* Improves with a tie counted as an improvement (rmse <= best_rmse)
ImprovesOrTies(rmse, best) == FloatLess(rmse, best) \/ (~IsNaN(rmse) /\ rmse = best)

\* line 161: if rmse < best_rmse
Improves(rmse, best) == FloatLess(rmse, best)

\* lines 162-164: the locals after one family has been compared
Compared(c, name, estimator, rmse) ==
    IF Improves(rmse, c.best_rmse)
    THEN [c EXCEPT !.best_rmse = rmse, !.best_model = estimator,
                   !.best_name = name, !.rmse = Append(@, rmse), !.i = @ + 1]
    ELSE [c EXCEPT !.rmse = Append(@, rmse), !.i = @ + 1]

\* lines 141-164: one iteration of the loop.  GridSearchCV.fit raises when
\* X_tr has fewer rows than folds.
evaluate_family ==
    /\ pc = "compare_models"
    /\ cm.i \in 1..Len(model_defs)
    /\ LET def       == model_defs[cm.i]
           params    == oracle.best_params[def.name]
           estimator == fit([name |-> def.name, params |-> params,
                             fitted_on |-> {}], Range(X_tr))
           rmse      == oracle.holdout[def.name]
       IN  IF Len(X_tr) >= cv
           THEN /\ fits' = fits \cup SearchFits(def, X_tr, params)
                /\ cm' = Compared(cm, def.name, estimator, rmse)
                /\ UNCHANGED <<pc, failed_at>>
           ELSE /\ Fail
                /\ UNCHANGED <<cm, fits>>
    /\ UNCHANGED <<fs, oracle, train, test, submission, X, y, X_test, X_tr,
                   X_val, best_model, best_rmse>>

\* line 168 and line 294: best_model, best_rmse = compare_models(...)
compare_return ==
    /\ pc = "compare_models"
    /\ cm.i = Len(model_defs) + 1
    /\ best_model' = cm.best_model
    /\ best_rmse' = cm.best_rmse
    /\ pc' = "retrain"
    /\ UNCHANGED <<fs, oracle, failed_at, train, test, submission, X, y, X_test,
                   X_tr, X_val, cm, fits>>

\* retrain with the fit left out: the selected estimator is used as returned
retrain_without_fit ==
    /\ pc = "retrain"
    /\ pc' = "predict"
    /\ UNCHANGED <<fs, oracle, failed_at, train, test, submission, X, y, X_test,
                   X_tr, X_val, cm, best_model, best_rmse, fits>>

\* line 297: best_model.fit(X, y); raises AttributeError when best_model is None
retrain ==
    /\ pc = "retrain"
    /\ IF best_model # None
       THEN /\ best_model' = fit(best_model, 1..Len(X))
            /\ fits' = fits \cup {[name |-> best_model.name,
                                   params |-> best_model.params,
                                   stage |-> "final", rows |-> 1..Len(X)]}
            /\ pc' = "predict"
            /\ UNCHANGED failed_at
       ELSE /\ Fail
            /\ UNCHANGED <<best_model, fits>>
    /\ UNCHANGED <<fs, oracle, train, test, submission, X, y, X_test, X_tr,
                   X_val, cm, best_rmse>>

\* line 298: submission['UltimateIncurredClaimCost'] = best_model.predict(X_test);
\* the assignment raises ValueError when the lengths differ
predict ==
    /\ pc = "predict"
    /\ LET y_pred == predict_all(best_model, X_test)
       IN  IF Len(y_pred) = Len(submission)
           THEN /\ submission' =
                       SetColumn(submission, "UltimateIncurredClaimCost", y_pred)
                /\ pc' = "to_csv"
                /\ UNCHANGED failed_at
           ELSE /\ Fail
                /\ UNCHANGED submission
    /\ UNCHANGED <<fs, oracle, train, test, X, y, X_test, X_tr, X_val, cm,
                   best_model, best_rmse, fits>>

\* lines 299-302: submission.to_csv('submission.csv', index=False)
to_csv ==
    /\ pc = "to_csv"
    /\ fs' = [p \in DOMAIN fs \cup {"submission.csv"} |->
                 IF p = "submission.csv" THEN submission ELSE fs[p]]
    /\ pc' = "done"
    /\ UNCHANGED <<oracle, failed_at, train, test, submission, X, y, X_test,
                   X_tr, X_val, cm, best_model, best_rmse, fits>>

(***************************************************************************)
(* The runs of the model.  A run starts from three CSV files and from the  *)
(* outcomes of its seeded library calls.  The files are the base tables    *)
(* with one aspect varied: the table sizes, the files present, the two     *)
(* timestamps, wage and hours, the dependents, the pass-through numbers or *)
(* one categorical column of the first rows, or the library outcomes.      *)
(***************************************************************************)
BaseRow ==
    [DateTimeOfAccident |-> <<1970, 1, 1, 12>>,
     DateReported       |-> <<1970, 1, 2, 0>>,
     Age                |-> Num(30),
     WeeklyWages        |-> Num(600),
     HoursWorkedPerWeek |-> Num(40),
     DaysWorkedPerWeek  |-> Num(5),
     DependentChildren  |-> Num(0),
     DependentsOther    |-> Num(0),
     Gender             |-> "M",
     MaritalStatus      |-> "M",
     PartTimeFullTime   |-> "F"]

TrainRow(i) == [UltimateIncurredClaimCost |-> Num(100 * i)] @@ BaseRow
TemplateRow(i) == [ClaimNumber |-> i, UltimateIncurredClaimCost |-> Num(0)]

BaseTrain(n) == [i \in 1..n |-> TrainRow(i)]
BaseTest(m) == [i \in 1..m |-> BaseRow]
BaseTemplate(k) == [i \in 1..k |-> TemplateRow(i)]

GridOf(name) == (CHOOSE d \in Range(model_defs) : d.name = name).grid
FirstParams(name) == [d \in 1..Len(GridOf(name)) |-> 1]

BaseOracle(n) ==
    [val         |-> 1..n_test(n),
     best_params |-> [name \in Names |-> FirstParams(name)],
     holdout     |-> [name \in Names |-> Num(1)]]

Scenario(n, m, k) ==
    [paths |-> Paths, train |-> BaseTrain(n), test |-> BaseTest(m),
     template |-> BaseTemplate(k), oracle |-> BaseOracle(n)]

Base == Scenario(MaxTrainRows, MaxTestRows, MaxTestRows)

BadTimestamp == <<1970, 13, 1, 0>>
TimestampTexts ==
    {<<>>, BadTimestamp}
    \cup {<<yr, mo, d, h>> : yr \in {1970, 1971}, mo \in {1, 12}, d \in {1, 2},
                             h \in {0, 12, 23}}
FloatCells == {NaN, Num(0), Num(25), Num(40), Num(600)}
CountCells == {NaN, Num(0), Num(1), Num(2)}
CatTexts == {"", "F", "M", "U"}
\* np.sqrt(mean_squared_error(y_val, y_pred)): a number >= 0, or +inf when the
\* squared error of a large finite target overflows; never NaN, since
\* mean_squared_error rejects inputs that are not finite
RmseValues == {Num(v) : v \in 0..MaxRmse} \cup {Inf}

SizeScenarios ==
    {Scenario(n, m, k) : n \in 1..MaxTrainRows, m \in 1..MaxTestRows,
                         k \in 0..(MaxTestRows + 1)}

FileScenarios == {[Base EXCEPT !.paths = P] : P \in SUBSET Paths}

TimestampScenarios ==
    {[Base EXCEPT !.train[1].DateTimeOfAccident = a, !.train[1].DateReported = r] :
        a \in TimestampTexts, r \in TimestampTexts}
    \cup {[Base EXCEPT !.test[1].DateTimeOfAccident = a, !.test[1].DateReported = r] :
        a \in TimestampTexts, r \in {BaseRow.DateReported, <<>>, BadTimestamp}}

WageScenarios ==
    {[Base EXCEPT !.train[1].WeeklyWages = w, !.train[1].HoursWorkedPerWeek = h] :
        w \in FloatCells, h \in FloatCells}
    \cup {[Base EXCEPT !.test[1].WeeklyWages = w, !.test[1].HoursWorkedPerWeek = h] :
        w \in FloatCells, h \in FloatCells}

DependentsScenarios ==
    {[Base EXCEPT !.train[1].DependentChildren = c, !.train[1].DependentsOther = o] :
        c \in CountCells, o \in CountCells}
    \cup {[Base EXCEPT !.test[1].DependentChildren = c, !.test[1].DependentsOther = o] :
        c \in CountCells, o \in CountCells}

PassThroughScenarios ==
    {[Base EXCEPT !.train[1].Age = a, !.train[1].DaysWorkedPerWeek = d] :
        a \in CountCells, d \in CountCells}
    \cup {[Base EXCEPT !.test[1].Age = a, !.test[1].DaysWorkedPerWeek = d] :
        a \in CountCells, d \in CountCells}

CategoryScenarios ==
    {[Base EXCEPT !.train[1][col] = a, !.train[2][col] = b,
                  !.test[1][col] = c, !.test[2][col] = d] :
        col \in Range(cats), a \in CatTexts, b \in CatTexts, c \in CatTexts,
        d \in CatTexts}

SelectionScenarios ==
    {[Base EXCEPT !.oracle.holdout = h] : h \in [Names -> RmseValues]}

SplitScenarios ==
    {[Base EXCEPT !.oracle.val = S] :
        S \in {T \in SUBSET (1..MaxTrainRows) : Cardinality(T) = n_test(MaxTrainRows)}}

GridScenarios ==
    UNION {{[Base EXCEPT !.oracle.holdout[w] = Num(0), !.oracle.best_params[w] = p] :
               p \in ParameterGrid(GridOf(w))} : w \in Names}

Scenarios ==
    SizeScenarios \cup FileScenarios \cup TimestampScenarios \cup WageScenarios
    \cup DependentsScenarios \cup PassThroughScenarios \cup CategoryScenarios
    \cup SelectionScenarios \cup SplitScenarios \cup GridScenarios

Files(sc) ==
    [p \in sc.paths |->
        IF p = "train.csv" THEN sc.train
        ELSE IF p = "test.csv" THEN sc.test
        ELSE sc.template]

Init ==
    \E sc \in Scenarios :
        /\ fs = Files(sc)
        /\ oracle = sc.oracle
        /\ pc = "load_data"
        /\ failed_at = ""
        /\ train = <<>>
        /\ test = <<>>
        /\ submission = <<>>
        /\ X = <<>>
        /\ y = <<>>
        /\ X_test = <<>>
        /\ X_tr = <<>>
        /\ X_val = <<>>
        /\ cm = CmIdle
        /\ best_model = None
        /\ best_rmse = Inf
        /\ fits = {}

Next ==
    \/ load_data
    \/ clean_train
    \/ clean_test
    \/ build_matrices
    \/ encode
    \/ split
    \/ compare_start
    \/ evaluate_family
    \/ compare_return
    \/ retrain
    \/ predict
    \/ to_csv

Spec == Init /\ [][Next]_vars

(***************************************************************************)
(* Properties.                                                             *)
(***************************************************************************)
Families == 1..Len(model_defs)

\* the estimator GridSearchCV hands back for family i: best_estimator_
BestEstimator(i) ==
    [name      |-> model_defs[i].name,
     params    |-> oracle.best_params[model_defs[i].name],
     fitted_on |-> Range(X_tr)]

\* among the families E, none has a smaller hold-out RMSE than family i
LowestAmong(i, E) == \A j \in E : ~FloatLess(cm.rmse[j], cm.rmse[i])

\* C1: when compare_models has returned, the estimator main holds is the best
\* estimator of a family whose hold-out RMSE is the minimum of the three and
\* the returned RMSE is that minimum; a family strictly below both others is
\* the one returned.
C1_ReturnsLowestRmseFamily ==
    pc = "retrain" =>
        /\ \E i \in Families :
              /\ LowestAmong(i, Families)
              /\ best_model = BestEstimator(i)
              /\ best_rmse = cm.rmse[i]
        /\ \A i \in Families :
              (\A j \in Families \ {i} : FloatLess(cm.rmse[i], cm.rmse[j]))
                  => best_model = BestEstimator(i)

\* C2: at every point of the loop of compare_models, when two or more of the
\* families evaluated so far share the lowest hold-out RMSE, the first of them
\* in iteration order is the current best; a family other than the first is
\* the current best only if its RMSE is strictly below that of every family
\* evaluated before it.
C2_FirstSeenWinsTies ==
    (pc = "compare_models" /\ cm.i >= 2) =>
        LET E    == 1..(cm.i - 1)
            lows == {i \in E : LowestAmong(i, E)}
        IN  /\ Cardinality(lows) >= 2 =>
                  cm.best_name = model_defs[CHOOSE i \in lows : \A j \in lows : i <= j].name
            /\ \A i \in E :
                  cm.best_name = model_defs[i].name =>
                      \A j \in 1..(i - 1) : FloatLess(cm.rmse[i], cm.rmse[j])

(***************************************************************************)
(* The rows clean_and_engineer has processed: <<row of the CSV file, row   *)
(* of the engineered table>>, for the training and for the test table.     *)
(***************************************************************************)
Engineered(df) == Len(df) > 0 /\ "ReportDelayDays" \in DOMAIN df[1]

Paired(csv, df) == {<<csv[i], df[i]>> : i \in 1..Len(df)}

ProcessedRows ==
    (IF Engineered(train) THEN Paired(fs["train.csv"], train) ELSE {})
    \cup (IF Engineered(test) THEN Paired(fs["test.csv"], test) ELSE {})

BothPresent(r) == r.DateTimeOfAccident # <<>> /\ r.DateReported # <<>>

\* hours from the accident to the report, from the texts of the two cells
ElapsedHours(r) ==
    (DayNumber(r.DateReported) * HoursPerDay + r.DateReported[4])
    - (DayNumber(r.DateTimeOfAccident) * HoursPerDay + r.DateTimeOfAccident[4])

\* calendar days from the date of the accident to the date of the report
CalendarDays(r) == DayNumber(r.DateReported) - DayNumber(r.DateTimeOfAccident)

\* the encode_and_impute call of main has been made
EncodeCalled ==
    \/ pc \in {"split", "compare_models", "retrain", "predict", "to_csv", "done"}
    \/ pc = "failed" /\ failed_at \in {"encode", "split", "compare_models",
                                        "retrain", "predict"}

\* the texts of a categorical column of an engineered table
Texts(df, col) == {astype_str(df[i][col]) : i \in 1..Len(df)}

UnseenIn(col) == ~(Texts(test, col) \subseteq Texts(train, col))

\* C3: once encode_and_impute has been called with a test column holding a
\* text that does not occur in the training column, the run has failed in
\* that call: no split was made, compare_models was never entered and no
\* submission file exists.
C3_UnseenCategoryFails ==
    (EncodeCalled /\ \E col \in Range(cats) : UnseenIn(col)) =>
        /\ pc = "failed"
        /\ failed_at = "encode"
        /\ X_tr = <<>>
        /\ X_val = <<>>
        /\ cm = CmIdle
        /\ fits = {}
        /\ "submission.csv" \notin DOMAIN fs

C3_Witness ==
    /\ pc = "failed"
    /\ failed_at = "encode"
    /\ UnseenIn("MaritalStatus")
    /\ ~UnseenIn("Gender")

\* C4 as stated: for every processed row with both timestamps, ReportDelayDays
\* is the calendar-day difference of the two dates whatever the times of day,
\* and it is negative when the report precedes the accident.
C4_CalendarDayDifference ==
    \A p \in ProcessedRows :
        BothPresent(p[1]) =>
            /\ p[2].ReportDelayDays = Num(CalendarDays(p[1]))
            /\ ElapsedHours(p[1]) < 0 => p[2].ReportDelayDays.num < 0

\* C4 as amended: for every processed row with both timestamps,
\* ReportDelayDays is the calendar-day difference when the report's time of
\* day is not earlier than the accident's and one day less otherwise; it is
\* negative, without clamping, when the report precedes the accident.  A row
\* with a missing timestamp has a missing ReportDelayDays.
C4_CalendarDaysLessPartialDay ==
    \A p \in ProcessedRows :
        IF BothPresent(p[1])
        THEN /\ p[2].ReportDelayDays =
                    Num(IF p[1].DateReported[4] >= p[1].DateTimeOfAccident[4]
                        THEN CalendarDays(p[1])
                        ELSE CalendarDays(p[1]) - 1)
             /\ ElapsedHours(p[1]) < 0 => p[2].ReportDelayDays.num < 0
        ELSE IsNaN(p[2].ReportDelayDays)

C4_Witness ==
    \E p \in ProcessedRows :
        /\ BothPresent(p[1])
        /\ CalendarDays(p[1]) = 1
        /\ p[1].DateReported[4] < p[1].DateTimeOfAccident[4]
        /\ p[2].ReportDelayDays = Num(0)

\* C5 as stated: for every processed row with both timestamps, ReportDelayDays
\* is the elapsed time in days with the partial day cut off towards zero, for
\* negative differences too (minus one and a half days gives -1).
C5_TruncatedTowardsZero ==
    \A p \in ProcessedRows :
        BothPresent(p[1]) =>
            LET e == ElapsedHours(p[1])
            IN  p[2].ReportDelayDays =
                    Num(IF e < 0 THEN -((-e) \div HoursPerDay) ELSE e \div HoursPerDay)

\* C5 as amended: for every processed row with both timestamps,
\* ReportDelayDays is the whole number d of days with
\* d days <= elapsed time < d + 1 days: the partial day is cut off towards
\* minus infinity (minus one and a half days gives -2), which is truncation
\* for the differences that are not negative.
C5_FlooredElapsedDays ==
    \A p \in ProcessedRows :
        BothPresent(p[1]) =>
            LET e == ElapsedHours(p[1])
                d == p[2].ReportDelayDays
            IN  /\ d.den = 1
                /\ d.num * HoursPerDay <= e
                /\ e < (d.num + 1) * HoursPerDay

C5_Witness ==
    \E p \in ProcessedRows :
        /\ BothPresent(p[1])
        /\ ElapsedHours(p[1]) = -36
        /\ p[2].ReportDelayDays = Num(-2)

\* C6: for every processed row, WagePerHour times HoursWorkedPerWeek is
\* WeeklyWages when the hours are a number above 0 (and is missing when the
\* wages are), and WagePerHour is missing, not infinite, when the hours are 0.
C6_WagePerHour ==
    \A p \in ProcessedRows :
        LET w  == p[1].WeeklyWages
            h  == p[1].HoursWorkedPerWeek
            wp == p[2].WagePerHour
        IN  /\ (IsFinite(h) /\ h.num > 0 /\ IsFinite(w)) =>
                  /\ IsFinite(wp)
                  /\ wp.num * h.num * w.den = w.num * h.den * wp.den
            /\ (IsFinite(h) /\ h.num > 0 /\ IsNaN(w)) => IsNaN(wp)
            /\ h = Num(0) => IsNaN(wp)

C6_Witness ==
    \E p \in ProcessedRows :
        /\ p[1].HoursWorkedPerWeek = Num(0)
        /\ p[1].WeeklyWages = Num(600)
        /\ IsNaN(p[2].WagePerHour)

\* encode_and_impute has returned its two tables to main
Encoded ==
    \/ pc \in {"split", "compare_models", "retrain", "predict", "to_csv", "done"}
    \/ pc = "failed" /\ failed_at \in {"split", "compare_models", "retrain", "predict"}

NumericFeatures == Range(FEATURES) \ Range(cats)

\* the table `out` is the engineered table `eng` of the file `csv`, imputed
Imputed(csv, eng, out) ==
    /\ Len(out) = Len(eng)
    /\ \A i \in 1..Len(out) :
          /\ DOMAIN out[i] = Range(FEATURES)
          /\ \A c \in Range(FEATURES) : ~IsNaN(out[i][c])
          /\ \A c \in NumericFeatures :
                out[i][c] = (IF IsNaN(eng[i][c]) THEN Num(0) ELSE eng[i][c])
          /\ csv[i].HoursWorkedPerWeek = Num(0) => out[i].WagePerHour = Num(0)
          /\ (csv[i].WeeklyWages = Num(600) /\ csv[i].HoursWorkedPerWeek = Num(40))
                => out[i].WagePerHour = Num(15)

\* C7: the two tables encode_and_impute returns have no missing value in any
\* FEATURES column: a numeric cell that was missing is 0 and any other numeric
\* cell is unchanged; a row with HoursWorkedPerWeek = 0 has WagePerHour = 0
\* and a row with WeeklyWages = 600, HoursWorkedPerWeek = 40 has 15.
C7_NoMissingAfterImpute ==
    Encoded =>
        /\ Imputed(fs["train.csv"], train, X)
        /\ Imputed(fs["test.csv"], test, X_test)

C7_Witness ==
    /\ Encoded
    /\ fs["test.csv"][1].HoursWorkedPerWeek = Num(0)
    /\ IsNaN(test[1].WagePerHour)
    /\ X_test[1].WagePerHour = Num(0)
    /\ X_test[2].WagePerHour = Num(15)

Written == "submission.csv" \in DOMAIN fs

\* C8: submission.csv exists only when main is done, and then every stage
\* has completed without error (both tables engineered, the features encoded,
\* the split made, the three families compared, the selected model refitted
\* and the predictions assigned); it comes into existence only by the last
\* step of main; a run that has failed has written no file and stays failed.
C8_SubmissionOnlyAfterAllStages ==
    /\ [](Written =>
            /\ pc = "done"
            /\ failed_at = ""
            /\ Engineered(train)
            /\ Engineered(test)
            /\ Imputed(fs["train.csv"], train, X)
            /\ Len(X_tr) + Len(X_val) = Len(X)
            /\ cm.i = Len(model_defs) + 1
            /\ best_model.fitted_on = 1..Len(X)
            /\ fs["submission.csv"] = submission
            /\ \A i \in 1..Len(submission) :
                  submission[i].UltimateIncurredClaimCost
                      = Predict(best_model, X_test[i]))
    /\ [](pc = "failed" => (~Written /\ failed_at # ""))
    /\ [][(~Written /\ Written') => (pc = "to_csv" /\ pc' = "done")]_vars
    /\ [][pc = "failed" => (pc' = "failed" /\ fs' = fs)]_vars

C8_Witness ==
    /\ pc = "failed"
    /\ failed_at = "clean_train"
    /\ \E i \in 1..Len(train) : ~Parsable(train[i].DateReported)
    /\ ~Written

\* C9: the table written to submission.csv has as many rows as the template
\* read, in the same order, with every column other than
\* UltimateIncurredClaimCost unchanged, and row i holds the prediction for
\* row i of the test table.
C9_SubmissionKeepsTemplate ==
    Written =>
        LET out  == fs["submission.csv"]
            tpl  == fs["sample_submission.csv"]
            rows == fs["test.csv"]
        IN  /\ Len(out) = Len(tpl)
            /\ Len(out) = Len(rows)
            /\ \A i \in 1..Len(out) :
                  /\ DOMAIN out[i] = DOMAIN tpl[i]
                  /\ \A c \in DOMAIN tpl[i] \ {"UltimateIncurredClaimCost"} :
                        out[i][c] = tpl[i][c]
                  /\ out[i].UltimateIncurredClaimCost.model = best_model
                  /\ out[i].UltimateIncurredClaimCost.x = X_test[i]
                  /\ \A c \in {"Age", "WeeklyWages", "HoursWorkedPerWeek",
                               "DaysWorkedPerWeek"} :
                        X_test[i][c] = Fillna(rows[i][c], Num(0))

C9_Witness ==
    /\ Written
    /\ Len(fs["submission.csv"]) >= 2
    /\ fs["submission.csv"][1].UltimateIncurredClaimCost
           # fs["submission.csv"][2].UltimateIncurredClaimCost
    /\ fs["submission.csv"][2].ClaimNumber = 2

\* C10: every prediction in the submission is made by the estimator
\* compare_models returned, with the hyperparameters chosen in the selection,
\* as fitted on all rows of X; the estimator as returned was fitted on the
\* training split only; the fit on all rows is made after compare_models has
\* returned and before any prediction.
C10_PredictionsFromFullRefit ==
    LET all_rows == 1..Len(X)
        selected == cm.best_model
    IN  /\ pc \in {"to_csv", "done"} =>
              \A i \in 1..Len(submission) :
                 LET m == submission[i].UltimateIncurredClaimCost.model
                 IN  /\ m = [selected EXCEPT !.fitted_on = all_rows]
                     /\ m.name = cm.best_name
                     /\ m.params = oracle.best_params[m.name]
                     /\ selected.fitted_on = Range(X_tr)
                     /\ selected.fitted_on # all_rows
                     /\ m.fitted_on # selected.fitted_on
        /\ pc = "predict" =>
              /\ cm.i = Len(model_defs) + 1
              /\ best_model = [selected EXCEPT !.fitted_on = all_rows]
        /\ (\E f \in fits : f.stage = "final") =>
              /\ cm.i = Len(model_defs) + 1
              /\ pc \in {"predict", "to_csv", "done", "failed"}
        /\ pc \in {"predict", "to_csv", "done"} =>
              [name |-> selected.name, params |-> selected.params,
               stage |-> "final", rows |-> all_rows] \in fits

C10_Witness ==
    /\ pc = "done"
    /\ Written
    /\ cm.best_name = "CatBoost"
    /\ best_model.params # FirstParams("CatBoost")
    /\ fs["submission.csv"][1].UltimateIncurredClaimCost.model.fitted_on = 1..Len(X)

\* the position of a text in the order np.unique sorts texts in
Rank(text) == CHOOSE k \in 1..Len(TextOrder) : TextOrder[k] = text

\* the number of texts of the training column that sort before `text`
TrainCode(col, text) ==
    Cardinality({t \in Texts(train, col) : Rank(t) < Rank(text)})

\* <<text, code>> of every cell of a categorical column, in both tables
CodedCells(col) ==
    {<<astype_str(train[i][col]), X[i][col]>> : i \in 1..Len(X)}
    \cup {<<astype_str(test[i][col]), X_test[i][col]>> : i \in 1..Len(X_test)}

\* C11: in the tables encode_and_impute returns, for each categorical column,
\* two cells of the training or the test table have the same code exactly
\* when their texts are equal, and the code of every cell is determined by
\* its text and the training column alone (the number of training texts
\* that sort before it), whatever the test column holds.
C11_OneMappingFromTraining ==
    Encoded =>
        \A col \in Range(cats) :
            /\ \A a \in CodedCells(col) : \A b \in CodedCells(col) :
                  (a[2] = b[2]) <=> (a[1] = b[1])
            /\ \A a \in CodedCells(col) : a[2] = Num(TrainCode(col, a[1]))

C11_Witness ==
    /\ Encoded
    /\ Cardinality(Texts(train, "Gender")) = 3
    /\ Texts(test, "Gender") = {"M", "U"}
    /\ X_test[1].Gender = Num(2)
    /\ X_test[2].Gender = Num(1)

\* the codes of a column of an encoded table
Codes(df, col) == {df[i][col] : i \in 1..Len(df)}

ImputedRows ==
    IF Encoded THEN Paired(fs["train.csv"], X) \cup Paired(fs["test.csv"], X_test)
    ELSE {}

\* DependentsTotal of a row whose two counts are whole numbers c and o
CountSum(c, o) == Num(c.num + o.num)

\* C14: for every row clean_and_engineer has processed, DependentsTotal is
\* DependentChildren + DependentsOther when both counts are present and is
\* missing when either count is missing; in the tables encode_and_impute
\* returns, a row with a missing count has DependentsTotal = 0 and any other
\* row keeps its sum.
C14_DependentsTotal ==
    /\ \A p \in ProcessedRows :
          LET c == p[1].DependentChildren
              o == p[1].DependentsOther
          IN  /\ (IsFinite(c) /\ IsFinite(o)) => p[2].DependentsTotal = CountSum(c, o)
              /\ (IsNaN(c) \/ IsNaN(o)) => IsNaN(p[2].DependentsTotal)
    /\ \A p \in ImputedRows :
          LET c == p[1].DependentChildren
              o == p[1].DependentsOther
          IN  /\ (IsFinite(c) /\ IsFinite(o)) => p[2].DependentsTotal = CountSum(c, o)
              /\ (IsNaN(c) \/ IsNaN(o)) => p[2].DependentsTotal = Num(0)

C14_Witness ==
    /\ Encoded
    /\ fs["train.csv"][1].DependentChildren = Num(2)
    /\ IsNaN(fs["train.csv"][1].DependentsOther)
    /\ IsNaN(train[1].DependentsTotal)
    /\ X[1].DependentsTotal = Num(0)

\* C15 as stated: in the tables encode_and_impute returns, every row has an
\* AccidentMonth in 1..12 and an AccidentHour in 0..23.
C15_MonthAndHourInRange ==
    \A p \in ImputedRows :
        /\ p[2].AccidentMonth \in {Num(m) : m \in 1..12}
        /\ p[2].AccidentHour \in {Num(h) : h \in 0..(HoursPerDay - 1)}

\* C15 amended: in the tables encode_and_impute returns, a row whose accident
\* timestamp is present has the month (1..12) and the hour (0..23) written in
\* that timestamp; a row whose accident timestamp is missing has
\* AccidentMonth = 0 and AccidentHour = 0.  Before the imputation such a row
\* has both missing.
C15_MonthAndHourOfPresentTimestamp ==
    /\ \A p \in ImputedRows :
          LET acc == p[1].DateTimeOfAccident
          IN  IF acc # <<>>
              THEN /\ p[2].AccidentMonth = Num(acc[2])
                   /\ acc[2] \in 1..12
                   /\ p[2].AccidentHour = Num(acc[4])
                   /\ acc[4] \in 0..(HoursPerDay - 1)
              ELSE /\ p[2].AccidentMonth = Num(0)
                   /\ p[2].AccidentHour = Num(0)
    /\ \A p \in ProcessedRows :
          LET acc == p[1].DateTimeOfAccident
          IN  IF acc # <<>>
              THEN /\ p[2].AccidentMonth = Num(acc[2])
                   /\ p[2].AccidentHour = Num(acc[4])
              ELSE /\ IsNaN(p[2].AccidentMonth)
                   /\ IsNaN(p[2].AccidentHour)

C15_Witness ==
    /\ Encoded
    /\ fs["train.csv"][1].DateTimeOfAccident = <<>>
    /\ X[1].AccidentMonth = Num(0)
    /\ X[1].AccidentHour = Num(0)
    /\ fs["train.csv"][2].DateTimeOfAccident = <<1970, 1, 1, 12>>
    /\ X[2].AccidentMonth = Num(1)
    /\ X[2].AccidentHour = Num(12)

\* a December accident at 23:00 reaches the models as month 12, hour 23
C15_WitnessDecember ==
    /\ Encoded
    /\ fs["test.csv"][1].DateTimeOfAccident = <<1971, 12, 2, 23>>
    /\ X_test[1].AccidentMonth = Num(12)
    /\ X_test[1].AccidentHour = Num(23)

\* the columns clean_and_engineer reads, and the columns it assigns
InputColumns == DOMAIN BaseRow
AssignedColumns ==
    {"DateTimeOfAccident", "DateReported", "ReportDelayDays", "AccidentMonth",
     "AccidentHour", "WagePerHour", "DependentsTotal"}

Restrict(r, columns) == [c \in columns |-> r[c]]

SplitMade ==
    \/ pc \in {"compare_models", "retrain", "predict", "to_csv", "done"}
    \/ pc = "failed" /\ failed_at \in {"compare_models", "retrain", "predict"}

\* C17: once the split is made, the training split and the validation split
\* share no row and every row of X is in exactly one of them; every fit of
\* compare_models (the cross-validation fits and the refit of the best
\* combination) and every estimator it holds is fitted on rows of the
\* training split only; a fit that uses a validation row is the final retrain
\* of main, made after compare_models has returned.  Before the split no fit
\* is made at all.
C17_HoldoutNeverFitted ==
    /\ SplitMade =>
          /\ Range(X_tr) \cap Range(X_val) = {}
          /\ Range(X_tr) \cup Range(X_val) = 1..Len(X)
          /\ Len(X_tr) + Len(X_val) = Len(X)
          /\ Len(X_val) >= 1
          /\ \A f \in fits :
                f.stage # "final" =>
                    /\ f.rows \subseteq Range(X_tr)
                    /\ f.rows \cap Range(X_val) = {}
          /\ cm.best_model.fitted_on \subseteq Range(X_tr)
          /\ \A f \in fits :
                f.rows \cap Range(X_val) # {} =>
                    /\ f.stage = "final"
                    /\ f.rows = 1..Len(X)
                    /\ cm.i = Len(model_defs) + 1
                    /\ pc \in {"predict", "to_csv", "done", "failed"}
    /\ ~SplitMade => fits = {}

C17_Witness ==
    /\ pc = "done"
    /\ X_val = <<2, 5>>
    /\ Range(X_tr) = (1..Len(X)) \ {2, 5}
    /\ \E f \in fits : /\ f.stage = "cv"
                       /\ f.rows # Range(X_tr)
                       /\ {1, 3, 4} \subseteq f.rows
    /\ \E f \in fits : f.stage = "refit" /\ f.rows = Range(X_tr)
    /\ \E f \in fits : f.stage = "final" /\ f.rows = 1..Len(X)

\* compare_models has returned to main
Returned ==
    \/ pc \in {"retrain", "predict", "to_csv", "done"}
    \/ pc = "failed" /\ failed_at \in {"retrain", "predict"}

\* some family's hold-out RMSE compares strictly below +inf
SomeBelowInf ==
    \E i \in Families : FloatLess(oracle.holdout[model_defs[i].name], Inf)

\* C18: after compare_models has returned, the estimator main holds is
\* non-null exactly when some family's hold-out RMSE compares strictly below
\* +inf.  When none does, main holds the null model with best_rmse = +inf, the
\* run is at the final retrain or has failed there, it never gets further,
\* and submission.csv does not exist.
C18_NullModelIffNoRmseBelowInf ==
    Returned =>
        /\ cm.rmse = [i \in Families |-> oracle.holdout[model_defs[i].name]]
        /\ (cm.best_model # None) <=> SomeBelowInf
        /\ (best_model # None) <=> SomeBelowInf
        /\ ~SomeBelowInf =>
              /\ best_model = None
              /\ best_rmse = Inf
              /\ \/ pc = "retrain"
                 \/ pc = "failed" /\ failed_at = "retrain"
              /\ ~Written
              /\ \A f \in fits : f.stage # "final"
        /\ SomeBelowInf => ~(pc = "failed" /\ failed_at = "retrain")

C18_Witness ==
    /\ pc = "failed"
    /\ failed_at = "retrain"
    /\ \A name \in Names : oracle.holdout[name] = Inf
    /\ best_model = None
    /\ best_rmse = Inf
    /\ ~Written

\* one family below +inf is enough for a model to be returned: the last one
C18_WitnessOneFinite ==
    /\ pc = "done"
    /\ oracle.holdout["GradientBoosting"] = Inf
    /\ oracle.holdout["RandomForest"] = Inf
    /\ oracle.holdout["CatBoost"] = Num(MaxRmse)
    /\ best_model.name = "CatBoost"

\* the texts present (not missing) in a categorical column of train.csv
PresentTexts(col) ==
    {fs["train.csv"][i][col] : i \in 1..Len(fs["train.csv"])} \ {""}

MissingIn(csv, col) == \E i \in 1..Len(csv) : csv[i][col] = ""

\* the code of the text 'nan' among the training categories: the number of
\* present training texts that sort before it
MissingCode(col) ==
    Num(Cardinality({t \in PresentTexts(col) : Rank(t) < Rank("nan")}))

\* C19: in the tables encode_and_impute returns, a missing cell of a
\* categorical column has the code of the text 'nan' among the training
\* categories, in the training and in the test table alike: a code no present
\* text of the column has, and not 0 unless the column has no text sorting
\* before 'nan'.  Once encode_and_impute has been called with a categorical
\* column that has a missing cell in the test table and none in the training
\* table, the run has failed in that call.
C19_MissingIsItsOwnCategory ==
    /\ Encoded =>
          \A col \in Range(cats) : \A p \in ImputedRows :
              IF p[1][col] = ""
              THEN /\ p[2][col] = MissingCode(col)
                   /\ PresentTexts(col) # {} => p[2][col] # Num(0)
                   /\ MissingIn(fs["train.csv"], col)
              ELSE MissingIn(fs["train.csv"], col) => p[2][col] # MissingCode(col)
    /\ EncodeCalled =>
          \A col \in Range(cats) :
              (MissingIn(fs["test.csv"], col) /\ ~MissingIn(fs["train.csv"], col))
                  => pc = "failed" /\ failed_at = "encode"

C19_Witness ==
    /\ Encoded
    /\ fs["train.csv"][1].MaritalStatus = ""
    /\ fs["train.csv"][2].MaritalStatus = "U"
    /\ fs["test.csv"][1].MaritalStatus = ""
    /\ X[1].MaritalStatus = Num(2)
    /\ X_test[1].MaritalStatus = Num(2)
    /\ X[2].MaritalStatus = Num(1)

\* a missing test cell with no missing training cell stops the run
C19_WitnessUnseenMissing ==
    /\ pc = "failed"
    /\ failed_at = "encode"
    /\ MissingIn(fs["test.csv"], "Gender")
    /\ ~MissingIn(fs["train.csv"], "Gender")
    /\ \A i \in 1..Len(test) : test[i].Gender \in {"", "M"}

====
